---- MODULE Spec2Model ----
(***************************************************************************)
(* pg-data-listener: the DataListener of main.go.  A registry of           *)
(* per-table consumers (handlers), a pq listener subscribed to the         *)
(* channel data_changes, and the loop of Start that either takes a         *)
(* notification from listener.Notify and routes it, or times out after     *)
(* 15 seconds and pings the connection.                                    *)
(***************************************************************************)
EXTENDS Integers, Sequences, FiniteSets, TLC

\* ------------------------------------------------------------- bounds
\* Notifications the session yields in one run (nil signals included).
MaxNotifs == 2
\* Capacity of the buffered channel listener.Notify as modelled.
ChanCap == 2

\* Seconds that pass in one step of the clock.
ClockStep == 5

\* time.After(15 * time.Second), in seconds.
LivenessWindow == 15

\* ------------------------------------------------------------- values
\* Table names that occur as registry keys and in payloads.
TableNames == {"", "s_config", "s_user"}

\* Implementations of TableChangeHandler that may be registered.
Consumers == {"ConfigManager", "UserManager"}

\* Markers for a field of a JSON object that is not a JSON string.
Absent == "<absent>"
JsonNull == "<null>"
JsonNumber == "<number>"

ValidTime == "2024-01-01T12:00:00Z"
BadTime == "yesterday"
Doc1 == "{\"id\":1}"

\* An object payload with the four members given (Absent: no such member).
Obj(t, o, d, ts) ==
    [syntax |-> "ok", top |-> "object", table |-> t, operation |-> o,
     data |-> d, timestamp |-> ts]

\* Text that is not JSON.
NotJson ==
    [syntax |-> "bad", top |-> "object", table |-> Absent, operation |-> Absent,
     data |-> Absent, timestamp |-> Absent]

\* The payloads (notification.Extra) the producer side may send.
Payloads ==
    { Obj("s_config", "UPDATE", Doc1, ValidTime),
      Obj("s_user", "INSERT", Doc1, ValidTime),
      Obj("s_config", "TRUNCATE", Doc1, ValidTime),
      Obj("s_user", "DELETE", Doc1, Absent),
      Obj(Absent, Absent, Absent, Absent),
      Obj("s_config", "UPDATE", Doc1, BadTime),
      NotJson }

\* A nil *pq.Notification: what the listener sends after a reconnect.
Nil ==
    [syntax |-> "nil", top |-> "nil", table |-> Absent, operation |-> Absent,
     data |-> Absent, timestamp |-> Absent]

Items == Payloads \cup {Nil}

\* ------------------------------------------------------------- decoding
\* A string member of ChangeNotification after json.Unmarshal: a missing
\* member or a JSON null leaves the zero value "".
StringField(v) == IF v \in {Absent, JsonNull} THEN "" ELSE v

RawField_Empty(v) == ""

\* The Data member (json.RawMessage): nil when missing, else the raw text.
RawField(v) == IF v = Absent THEN "" ELSE IF v = JsonNull THEN "null" ELSE v

\* json.Unmarshal([]byte(payload), &notification): the error cases are a
\* syntax error, a document that is neither an object nor null, a member of
\* the wrong JSON type, and a timestamp that time.Time cannot parse.  Missing
\* members are no error: they keep their zero values.
Unmarshal(p) ==
    IF p.syntax # "ok" THEN [err |-> TRUE, table |-> "", operation |-> "", data |-> ""]
    ELSE IF p.top = "null" THEN [err |-> FALSE, table |-> "", operation |-> "", data |-> ""]
    ELSE IF p.top # "object" THEN [err |-> TRUE, table |-> "", operation |-> "", data |-> ""]
    ELSE [err |-> \/ p.table = JsonNumber
                  \/ p.operation = JsonNumber
                  \/ p.timestamp \in {JsonNumber, BadTime},
          table |-> StringField(p.table),
          operation |-> StringField(p.operation),
          data |-> RawField(p.data)]

NoCall == [consumer |-> "<none>", operation |-> "", data |-> ""]

Lookup_AnyEntry(h, t) ==
    IF t \in DOMAIN h THEN h[CHOOSE k \in DOMAIN h : TRUE] ELSE "<none>"

\* dl.handlers[notification.Table] with its ok flag.
Lookup(h, t) == IF t \in DOMAIN h THEN h[t] ELSE "<none>"

handleNotification_UnknownIsError(p, h) ==
    LET n == Unmarshal(p) IN
    IF n.err THEN [err |-> "parse", call |-> NoCall]
    ELSE IF Lookup(h, n.table) = "<none>" THEN [err |-> "unknown", call |-> NoCall]
    ELSE [err |-> "none",
          call |-> [consumer |-> Lookup(h, n.table), operation |-> n.operation,
                    data |-> n.data]]

\* handleNotification up to the call of the consumer: the error it returns
\* before calling anyone, and the call it makes (NoCall: none).
handleNotification(p, h) ==
    LET n == Unmarshal(p) IN
    IF n.err THEN [err |-> "parse", call |-> NoCall]
    ELSE IF Lookup(h, n.table) = "<none>" THEN [err |-> "none", call |-> NoCall]
    ELSE [err |-> "none",
          call |-> [consumer |-> Lookup(h, n.table), operation |-> n.operation,
                    data |-> n.data]]

\* ------------------------------------------------------------- state
VARIABLES
    pc,           \* where Start is: setup, listen, select, handle, invoke, ping, returned
    handlers,     \* dl.handlers: table name -> consumer
    notify,       \* listener.Notify: positions in yielded, oldest first
    yielded,      \* every item the session has put on Notify, in order
    taken,        \* the positions the loop has received, in order
    cur,          \* the position being handled (0: none)
    calls,        \* consumer invocations, in order, with their outcome
    errlog,       \* log.Printf("Error: ...") records of the loop
    timer,        \* seconds elapsed of the time.After of this iteration
    window,       \* how the last select ended, the Pings that followed, the last result
    startErr,     \* what Start returned: none (still running), listen, ping
    listenerOpen, \* the pq listener of Start is open
    dbOpen,       \* dl.db is open
    lastReg,      \* the RegisterHandler call that returned last, while in setup
    evlog         \* log.Printf("Listener event: ...") records of eventCallback

vars == <<pc, handlers, notify, yielded, taken, cur, calls, errlog, timer,
          window, startErr, listenerOpen, dbOpen, lastReg, evlog>>

EmptyMap == [t \in {} |-> "<none>"]

\* No RegisterHandler call to speak of: none was made yet, or Start has been
\* called since.
NoReg == [table |-> "<none>", consumer |-> "<none>", before |-> EmptyMap]

\* The state after NewDataListener has returned a listener.
Init ==
    /\ pc = "setup"
    /\ handlers = EmptyMap
    /\ notify = <<>>
    /\ yielded = <<>>
    /\ taken = <<>>
    /\ cur = 0
    /\ calls = <<>>
    /\ errlog = <<>>
    /\ timer = 0
    /\ window = [how |-> "none", waited |-> 0, probes |-> 0, result |-> "none"]
    /\ startErr = "none"
    /\ listenerOpen = FALSE
    /\ dbOpen = TRUE
    /\ lastReg = NoReg
    /\ evlog = <<>>

MapSet_KeepFirst(h, t, c) ==
    [k \in (DOMAIN h) \cup {t} |-> IF k \in DOMAIN h THEN h[k] ELSE c]

\* ------------------------------------------------------------- helpers
\* h with t associated to c, whatever t was associated to before.
MapSet(h, t, c) == [k \in (DOMAIN h) \cup {t} |-> IF k = t THEN c ELSE h[k]]

Last(q) == q[Len(q)]
ButLast(q) == SubSeq(q, 1, Len(q) - 1)

\* The outcome of the last call replaced by r.
SetResult(cs, r) == [cs EXCEPT ![Len(cs)].result = r]

Receive_Newest(q) == [item |-> Last(q), rest |-> ButLast(q)]

\* A receive from the channel listener.Notify: the oldest item leaves it.
Receive(q) == [item |-> Head(q), rest |-> Tail(q)]

RegisterHandler_Late(t, c) ==
    /\ pc \in {"setup", "select"}
    /\ handlers' = MapSet(handlers, t, c)
    /\ UNCHANGED <<pc, notify, yielded, taken, cur, calls, errlog, timer,
                   window, startErr, listenerOpen, dbOpen>>
    /\ lastReg' = [table |-> t, consumer |-> c, before |-> handlers]
    /\ UNCHANGED evlog

\* ------------------------------------------------------------- setup
\* dl.RegisterHandler(tableName, handler), called before Start.
RegisterHandler(t, c) ==
    /\ pc = "setup"
    /\ handlers' = MapSet(handlers, t, c)
    /\ UNCHANGED <<pc, notify, yielded, taken, cur, calls, errlog, timer,
                   window, startErr, listenerOpen, dbOpen>>
    /\ lastReg' = [table |-> t, consumer |-> c, before |-> handlers]
    /\ UNCHANGED evlog

\* Start up to the call of Listen: the listener is created and its Close
\* deferred.
NewListener ==
    /\ pc = "setup"
    /\ pc' = "listen"
    /\ listenerOpen' = TRUE
    /\ UNCHANGED <<handlers, notify, yielded, taken, cur, calls, errlog, timer,
                   window, startErr, dbOpen>>
    /\ lastReg' = NoReg
    /\ UNCHANGED evlog

Listen_Leak(ok) ==
    /\ pc = "listen"
    /\ IF ok
       THEN /\ pc' = "select"
            /\ timer' = 0
            /\ UNCHANGED <<startErr, listenerOpen>>
       ELSE /\ pc' = "returned"
            /\ startErr' = "listen"
            /\ UNCHANGED <<listenerOpen, timer>>
    /\ UNCHANGED <<handlers, notify, yielded, taken, cur, calls, errlog,
                   window, dbOpen>>
    /\ UNCHANGED <<lastReg, evlog>>

\* listener.Listen("data_changes") returns nil (ok) or an error, which
\* Start returns after the deferred listener.Close().
Listen(ok) ==
    /\ pc = "listen"
    /\ IF ok
       THEN /\ pc' = "select"
            /\ timer' = 0
            /\ UNCHANGED <<startErr, listenerOpen>>
       ELSE /\ pc' = "returned"
            /\ startErr' = "listen"
            /\ listenerOpen' = FALSE
            /\ UNCHANGED timer
    /\ UNCHANGED <<handlers, notify, yielded, taken, cur, calls, errlog,
                   window, dbOpen>>
    /\ UNCHANGED <<lastReg, evlog>>

\* ------------------------------------------------------------- session
\* pq event types the callback is called with.
Disconnected == "disconnected"
Reconnected == "reconnected"

\* eventCallback(ev, err): a record is logged when err is not nil, and that
\* is all.
eventCallback(ev, hasErr, log) == IF hasErr THEN Append(log, ev) ELSE log

\* The pq listener puts a notification on Notify or, after it lost the
\* connection and made a new one, a nil; it reports the loss (with its error)
\* and the reconnection (without one) to the callback first.
Yield(item) ==
    /\ pc \in {"select", "invoke", "ping"}
    /\ listenerOpen
    /\ Len(yielded) < MaxNotifs
    /\ Len(notify) < ChanCap
    /\ yielded' = Append(yielded, item)
    /\ notify' = Append(notify, Len(yielded) + 1)
    /\ UNCHANGED <<pc, handlers, taken, cur, calls, errlog, timer, window,
                   startErr, listenerOpen, dbOpen>>
    /\ evlog' = IF item = Nil
                THEN eventCallback(Reconnected, FALSE,
                                   eventCallback(Disconnected, TRUE, evlog))
                ELSE evlog
    /\ UNCHANGED lastReg

\* ClockStep seconds pass while the loop is blocked in select.  A select with an
\* item buffered in Notify does not block, and a send to a goroutine parked in
\* select completes the select at once, so time passes only while Notify is
\* empty.  (timer is 0 whenever the loop is not in select: the timer of an
\* iteration is dropped with it.)
Tick ==
    /\ pc = "select"
    /\ notify = <<>>
    /\ timer < LivenessWindow
    /\ timer' = IF timer + ClockStep > LivenessWindow THEN LivenessWindow
                 ELSE timer + ClockStep
    /\ UNCHANGED <<pc, handlers, notify, yielded, taken, cur, calls, errlog,
                   window, startErr, listenerOpen, dbOpen>>
    /\ UNCHANGED <<lastReg, evlog>>

\* ------------------------------------------------------------- the loop
LoopAfterError_Return(kind) == [pc |-> "returned", startErr |-> kind]

\* What Start does with an error of handleNotification: it logs it, and the
\* loop goes on.
LoopAfterError(kind) == [pc |-> "select", startErr |-> "none"]

Dispatch_NoNilCheck(item, h) == handleNotification(item, h)

\* if notification != nil { dl.handleNotification(notification.Extra) }
Dispatch(item, h) ==
    IF item = Nil THEN [err |-> "none", call |-> NoCall]
    ELSE handleNotification(item, h)

RecvNotification_Async ==
    /\ pc \in {"select", "invoke"}
    /\ notify # <<>>
    /\ LET r == Receive(notify)
           item == yielded[r.item]
           h == Dispatch(item, handlers)
       IN /\ notify' = r.rest
          /\ taken' = Append(taken, r.item)
          /\ window' = [how |-> "notify", waited |-> 0, probes |-> 0,
                         result |-> "none"]
          /\ errlog' = IF h.err = "none" THEN errlog
                       ELSE Append(errlog, [idx |-> r.item, kind |-> h.err])
          /\ timer' = 0
          /\ IF h.call = NoCall
             THEN /\ pc' = IF h.err = "none" THEN "select"
                           ELSE LoopAfterError(h.err).pc
                  /\ startErr' = IF h.err = "none" THEN startErr
                                 ELSE LoopAfterError(h.err).startErr
                  /\ listenerOpen' = (pc' # "returned")
                  /\ UNCHANGED <<cur, calls>>
             ELSE /\ pc' = "invoke"
                  /\ UNCHANGED <<startErr, listenerOpen>>
                  /\ cur' = r.item
                  /\ calls' = Append(calls, [idx |-> r.item,
                                             consumer |-> h.call.consumer,
                                             operation |-> h.call.operation,
                                             data |-> h.call.data,
                                             result |-> "running"])
    /\ UNCHANGED <<handlers, yielded, dbOpen>>
    /\ UNCHANGED <<lastReg, evlog>>

RecvNotification_StaleTimer ==
    /\ pc = "select"
    /\ notify # <<>>
    /\ LET r == Receive(notify)
           item == yielded[r.item]
           h == Dispatch(item, handlers)
       IN /\ notify' = r.rest
          /\ taken' = Append(taken, r.item)
          /\ window' = [how |-> "notify", waited |-> 0, probes |-> 0,
                         result |-> "none"]
          /\ errlog' = IF h.err = "none" THEN errlog
                       ELSE Append(errlog, [idx |-> r.item, kind |-> h.err])
          /\ timer' = timer
          /\ IF h.call = NoCall
             THEN /\ pc' = IF h.err = "none" THEN "select"
                           ELSE LoopAfterError(h.err).pc
                  /\ startErr' = IF h.err = "none" THEN startErr
                                 ELSE LoopAfterError(h.err).startErr
                  /\ listenerOpen' = (pc' # "returned")
                  /\ UNCHANGED <<cur, calls>>
             ELSE /\ pc' = "invoke"
                  /\ UNCHANGED <<startErr, listenerOpen>>
                  /\ cur' = r.item
                  /\ calls' = Append(calls, [idx |-> r.item,
                                             consumer |-> h.call.consumer,
                                             operation |-> h.call.operation,
                                             data |-> h.call.data,
                                             result |-> "running"])
    /\ UNCHANGED <<handlers, yielded, dbOpen>>
    /\ UNCHANGED <<lastReg, evlog>>

\* case notification := <-listener.Notify, up to the call of the consumer
\* or, when no consumer is called, to the next iteration.
RecvNotification ==
    /\ pc = "select"
    /\ notify # <<>>
    /\ LET r == Receive(notify)
           item == yielded[r.item]
           h == Dispatch(item, handlers)
       IN /\ notify' = r.rest
          /\ taken' = Append(taken, r.item)
          /\ window' = [how |-> "notify", waited |-> 0, probes |-> 0,
                         result |-> "none"]
          /\ errlog' = IF h.err = "none" THEN errlog
                       ELSE Append(errlog, [idx |-> r.item, kind |-> h.err])
          /\ timer' = 0
          /\ IF h.call = NoCall
             THEN /\ pc' = IF h.err = "none" THEN "select"
                           ELSE LoopAfterError(h.err).pc
                  /\ startErr' = IF h.err = "none" THEN startErr
                                 ELSE LoopAfterError(h.err).startErr
                  /\ listenerOpen' = (pc' # "returned")
                  /\ UNCHANGED <<cur, calls>>
             ELSE /\ pc' = "invoke"
                  /\ UNCHANGED <<startErr, listenerOpen>>
                  /\ cur' = r.item
                  /\ calls' = Append(calls, [idx |-> r.item,
                                             consumer |-> h.call.consumer,
                                             operation |-> h.call.operation,
                                             data |-> h.call.data,
                                             result |-> "running"])
    /\ UNCHANGED <<handlers, yielded, dbOpen>>
    /\ UNCHANGED <<lastReg, evlog>>

HandleChange_Abort(ok) ==
    /\ pc = "invoke"
    /\ cur' = 0
    /\ IF ok
       THEN /\ calls' = SetResult(calls, "ok")
            /\ pc' = "select"
            /\ timer' = 0
            /\ UNCHANGED <<errlog, startErr, listenerOpen>>
       ELSE /\ calls' = SetResult(calls, "failed")
            /\ pc' = "returned"
            /\ startErr' = "handler"
            /\ listenerOpen' = FALSE
            /\ UNCHANGED <<errlog, timer>>
    /\ UNCHANGED <<handlers, notify, yielded, taken, window, dbOpen>>
    /\ UNCHANGED <<lastReg, evlog>>

\* handler.HandleChange returns nil (ok) or an error; handleNotification
\* returns it, Start logs it, and the loop goes on.
HandleChange(ok) ==
    /\ pc = "invoke"
    /\ cur' = 0
    /\ calls' = SetResult(calls, IF ok THEN "ok" ELSE "failed")
    /\ errlog' = IF ok THEN errlog
                 ELSE Append(errlog, [idx |-> cur, kind |-> "handler"])
    /\ pc' = IF ok THEN "select" ELSE LoopAfterError("handler").pc
    /\ startErr' = IF ok THEN startErr ELSE LoopAfterError("handler").startErr
    /\ listenerOpen' = (pc' # "returned")
    /\ timer' = 0
    /\ UNCHANGED <<handlers, notify, yielded, taken, window, dbOpen>>
    /\ UNCHANGED <<lastReg, evlog>>

Timeout_Early ==
    /\ pc = "select"
    /\ timer >= ClockStep
    /\ pc' = "ping"
    /\ window' = [how |-> "timeout", waited |-> timer, probes |-> 0,
                   result |-> "none"]
    /\ timer' = 0
    /\ UNCHANGED <<handlers, notify, yielded, taken, cur, calls, errlog,
                   startErr, listenerOpen, dbOpen>>
    /\ UNCHANGED <<lastReg, evlog>>

\* case <-time.After(15 * time.Second): the timer of this iteration fired.
Timeout ==
    /\ pc = "select"
    /\ timer = LivenessWindow
    /\ pc' = "ping"
    /\ window' = [how |-> "timeout", waited |-> timer, probes |-> 0,
                   result |-> "none"]
    /\ timer' = 0
    /\ UNCHANGED <<handlers, notify, yielded, taken, cur, calls, errlog,
                   startErr, listenerOpen, dbOpen>>
    /\ UNCHANGED <<lastReg, evlog>>

Ping_Retry(ok) ==
    /\ pc = "ping"
    /\ window' = [window EXCEPT !.probes = @ + 1,
                                !.result = IF ok THEN "ok" ELSE "failed"]
    /\ IF ok
       THEN /\ pc' = "select"
            /\ timer' = 0
       ELSE UNCHANGED <<pc, timer>>
    /\ UNCHANGED <<handlers, notify, yielded, taken, cur, calls, errlog,
                   startErr, listenerOpen, dbOpen>>
    /\ UNCHANGED <<lastReg, evlog>>

Ping_StaleTimer(ok) ==
    /\ pc = "ping"
    /\ window' = [window EXCEPT !.probes = @ + 1,
                                !.result = IF ok THEN "ok" ELSE "failed"]
    /\ IF ok
       THEN /\ pc' = "select"
            /\ timer' = LivenessWindow
            /\ UNCHANGED <<startErr, listenerOpen>>
       ELSE /\ pc' = "returned"
            /\ startErr' = "ping"
            /\ listenerOpen' = FALSE
            /\ UNCHANGED timer
    /\ UNCHANGED <<handlers, notify, yielded, taken, cur, calls, errlog, dbOpen>>
    /\ UNCHANGED <<lastReg, evlog>>

Ping_ReturnNil(ok) ==
    /\ pc = "ping"
    /\ window' = [window EXCEPT !.probes = @ + 1,
                                !.result = IF ok THEN "ok" ELSE "failed"]
    /\ IF ok
       THEN /\ pc' = "select"
            /\ timer' = 0
            /\ UNCHANGED <<startErr, listenerOpen>>
       ELSE /\ pc' = "returned"
            /\ startErr' = "none"
            /\ listenerOpen' = FALSE
            /\ UNCHANGED timer
    /\ UNCHANGED <<handlers, notify, yielded, taken, cur, calls, errlog, dbOpen>>
    /\ UNCHANGED <<lastReg, evlog>>

\* listener.Ping() returns nil (ok), and the loop goes on, or an error,
\* which Start returns after the deferred listener.Close().
Ping(ok) ==
    /\ pc = "ping"
    /\ window' = [window EXCEPT !.probes = @ + 1,
                                !.result = IF ok THEN "ok" ELSE "failed"]
    /\ IF ok
       THEN /\ pc' = "select"
            /\ timer' = 0
            /\ UNCHANGED <<startErr, listenerOpen>>
       ELSE /\ pc' = "returned"
            /\ startErr' = "ping"
            /\ listenerOpen' = FALSE
            /\ UNCHANGED timer
    /\ UNCHANGED <<handlers, notify, yielded, taken, cur, calls, errlog, dbOpen>>
    /\ UNCHANGED <<lastReg, evlog>>

\* dl.Close(): closes dl.db, the pool NewDataListener opened.
Close ==
    /\ dbOpen
    /\ dbOpen' = FALSE
    /\ UNCHANGED <<pc, handlers, notify, yielded, taken, cur, calls, errlog,
                   timer, window, startErr, listenerOpen>>
    /\ UNCHANGED <<lastReg, evlog>>

Next ==
    \/ \E t \in TableNames, c \in Consumers : RegisterHandler(t, c)
    \/ NewListener
    \/ \E ok \in BOOLEAN : Listen(ok)
    \/ \E item \in Items : Yield(item)
    \/ Tick
    \/ RecvNotification
    \/ \E ok \in BOOLEAN : HandleChange(ok)
    \/ Timeout
    \/ \E ok \in BOOLEAN : Ping(ok)
    \/ Close

Spec == Init /\ [][Next]_vars

\* The loop and the calls it waits for make progress: a ready select case is
\* taken, a consumer call, a Ping and Listen return, and time passes.
FairSpec ==
    /\ Spec
    /\ WF_vars(\E ok \in BOOLEAN : Listen(ok))
    /\ WF_vars(Tick)
    /\ WF_vars(RecvNotification)
    /\ WF_vars(\E ok \in BOOLEAN : HandleChange(ok))
    /\ WF_vars(Timeout)
    /\ WF_vars(\E ok \in BOOLEAN : Ping(ok))

\* ------------------------------------------------------------- properties
Operations == {"INSERT", "UPDATE", "DELETE"}

\* The envelope of the payload format: a JSON object with a table name, an
\* operation of the enumeration, a data document and a timestamp.
WellFormed(p) ==
    /\ p.syntax = "ok"
    /\ p.top = "object"
    /\ p.table \in TableNames \ {""}
    /\ p.operation \in Operations
    /\ p.data \notin {Absent, JsonNull, JsonNumber}
    /\ p.timestamp = ValidTime

\* Text that is not JSON, or a JSON document without one of the four members.
Incomplete(p) ==
    /\ p # Nil
    /\ \/ p.syntax = "bad"
       \/ p.top # "object"
       \/ Absent \in {p.table, p.operation, p.data, p.timestamp}

\* A malformed envelope: incomplete, or with a member of the wrong type.
Malformed(p) ==
    \/ Incomplete(p)
    \/ /\ p # Nil
       /\ \/ JsonNumber \in {p.table, p.operation, p.timestamp}
          \/ p.timestamp = BadTime

Registered(p) == p.table \in DOMAIN handlers

\* The positions the loop has received so far.
Taken == {taken[k] : k \in 1..Len(taken)}

\* The calls made for position i, and the error records written for it.
CallsFor(i) == {k \in 1..Len(calls) : calls[k].idx = i}
LoggedFor(i) == {k \in 1..Len(errlog) : errlog[k].idx = i}

\* C1: when the session yields only well-formed events for registered tables
\* and malformed payloads, each received well-formed event has exactly one
\* consumer invocation, each received malformed payload has none, and Start
\* returns only after a failed probe.
MalformedInputResilience ==
    (\A i \in 1..Len(yielded) :
        \/ WellFormed(yielded[i]) /\ Registered(yielded[i])
        \/ Malformed(yielded[i]))
    => /\ \A i \in Taken :
            Cardinality(CallsFor(i)) = IF WellFormed(yielded[i]) THEN 1 ELSE 0
       /\ (pc = "returned" /\ yielded # <<>> => window.result = "failed")

\* C2: a received well-formed notification for a registered table has exactly
\* one consumer invocation, of the consumer registered under its table; no
\* notification has more than one invocation.
RoutingCorrect ==
    /\ \A i \in Taken :
          WellFormed(yielded[i]) /\ Registered(yielded[i])
          => /\ Cardinality(CallsFor(i)) = 1
             /\ \A k \in CallsFor(i) : calls[k].consumer = handlers[yielded[i].table]
    /\ \A i \in 1..Len(yielded) : Cardinality(CallsFor(i)) <= 1

RoutingWitness ==
    /\ \E t, u \in DOMAIN handlers : handlers[t] # handlers[u]
    /\ \E i \in Taken :
          /\ WellFormed(yielded[i]) /\ Registered(yielded[i])
          /\ \E k \in CallsFor(i) : calls[k].result = "ok"

\* C3: a received well-formed notification whose table has no consumer has no
\* invocation and no error record, and the loop is back in select after it
\* (or has gone on to a timeout from there).
UnknownTableSilent ==
    \A i \in Taken :
        WellFormed(yielded[i]) /\ ~Registered(yielded[i])
        => /\ CallsFor(i) = {}
           /\ LoggedFor(i) = {}
           /\ (i = Last(taken) => /\ pc \in {"select", "ping", "returned"}
                                   /\ (pc = "returned" => window.result = "failed"))

UnknownTableWitness ==
    /\ DOMAIN handlers # {}
    /\ Len(taken) = 2
    /\ WellFormed(yielded[1]) /\ ~Registered(yielded[1])
    /\ WellFormed(yielded[2]) /\ Registered(yielded[2])
    /\ CallsFor(2) # {}

\* C4: a failed consumer invocation is logged and not returned by Start, the
\* loop is back in select after it, and every notification received after it
\* gets the invocation its payload and the registry determine.
ConsumerFailureAbsorbed ==
    \A k \in 1..Len(calls) :
        calls[k].result = "failed"
        => /\ \E e \in LoggedFor(calls[k].idx) : errlog[e].kind = "handler"
           /\ startErr # "handler"
           /\ (calls[k].idx = Last(taken)
               => /\ pc \in {"select", "ping", "returned"}
                  /\ (pc = "returned" => window.result = "failed"))
           /\ \A j \in Taken :
                 j > calls[k].idx
                 => LET h == handleNotification(yielded[j], handlers) IN
                    IF yielded[j] = Nil \/ h.call = NoCall
                    THEN CallsFor(j) = {}
                    ELSE /\ Cardinality(CallsFor(j)) = 1
                         /\ \A c \in CallsFor(j) :
                               /\ calls[c].consumer = h.call.consumer
                               /\ calls[c].operation = h.call.operation
                               /\ calls[c].data = h.call.data

ConsumerFailureWitness ==
    /\ Len(calls) = 2
    /\ calls[1].result = "failed"
    /\ calls[2].result = "ok"
    /\ calls[1].consumer # calls[2].consumer

\* C5: a failed Ping makes Start return the probe's error, with the listener
\* closed and after exactly one Ping; once Start has returned there is no
\* further Ping, receive or consumer invocation.
ProbeFailureTerminates ==
    /\ [](window.result = "failed"
           => /\ pc = "returned"
              /\ startErr = "ping"
              /\ ~listenerOpen
              /\ window.probes = 1)
    /\ [][pc = "returned"
           => /\ pc' = "returned"
              /\ startErr' = startErr
              /\ window' = window
              /\ taken' = taken
              /\ calls' = calls]_vars

ProbeFailureWitness ==
    /\ pc = "returned"
    /\ window.result = "failed"
    /\ calls # <<>>

\* C6 as stated: whenever Start has returned, it returned the error of a
\* failed probe.
OnlyProbeFailureReturned ==
    pc = "returned" => startErr = "ping" /\ window.result = "failed"

\* C6 as amended: whenever Start has returned, it returned the error of
\* Listen, before any notification was received, or the error of a failed
\* probe; decode errors and consumer failures are only logged.
OnlySubscribeOrProbeFailureReturned ==
    /\ pc = "returned" <=> startErr # "none"
    /\ startErr \in {"none", "listen", "ping"}
    /\ startErr = "ping" => window.result = "failed"
    /\ startErr = "listen" => taken = <<>> /\ yielded = <<>>

AbsorbedErrorsWitness ==
    /\ pc = "returned"
    /\ startErr = "ping"
    /\ \E e \in 1..Len(errlog) : errlog[e].kind = "parse"
    /\ \E e \in 1..Len(errlog) : errlog[e].kind = "handler"

\* C7: the loop receives the notifications in the order the session yielded
\* them, one at a time: the invocations are in yield order, and every
\* invocation but the one in flight for the last received has returned.
ProcessedInYieldOrder ==
    /\ taken = [k \in 1..Len(taken) |-> k]
    /\ \A a, b \in 1..Len(calls) : a < b => calls[a].idx < calls[b].idx
    /\ \A k \in 1..Len(calls) :
          calls[k].result = "running"
          => pc = "invoke" /\ k = Len(calls) /\ calls[k].idx = Last(taken)
    /\ pc = "invoke" => cur = Last(taken) /\ Last(calls).result = "running"

YieldOrderWitness ==
    /\ pc = "invoke"
    /\ Len(calls) = 2
    /\ calls[1].idx = 1
    /\ calls[2].idx = 2

\* C8: a Ping is issued only when the select of an iteration ended by the
\* timer after the full liveness window, exactly one Ping follows such an
\* end, and none follows a select that ended by a notification.
ProbePerWindow ==
    /\ pc = "ping" => window.how = "timeout" /\ window.probes = 0
    /\ window.how = "timeout"
       => /\ window.waited = LivenessWindow
          /\ (pc # "ping" => window.probes = 1)
    /\ window.how \in {"none", "notify"} => window.probes = 0 /\ pc # "ping"

ProbeWitness ==
    /\ pc = "select"
    /\ window.how = "timeout"
    /\ window.probes = 1
    /\ taken # <<>>

\* C9: once dl.Close() has been called and Start waits in select, Start
\* eventually returns with the listener's connection released.
CloseUnblocksStart ==
    (~dbOpen /\ pc = "select") ~> (pc = "returned" /\ ~listenerOpen)

\* C10: a received payload that is not JSON, or lacks one of the four members,
\* has no consumer invocation and a decode error record.
IncompleteEnvelopeRejected ==
    \A i \in Taken :
        Incomplete(yielded[i])
        => /\ CallsFor(i) = {}
           /\ \E e \in LoggedFor(i) : errlog[e].kind = "parse"

\* C11: after a RegisterHandler call the registry resolves the call's table
\* to the call's consumer and every other table as before the call; and every
\* consumer invocation is of the consumer the registry resolves for the
\* event's table, never of one that was replaced.
LastRegistrationWins ==
    /\ lastReg # NoReg
       => /\ pc = "setup"
          /\ lastReg.table \in DOMAIN handlers
          /\ Lookup(handlers, lastReg.table) = lastReg.consumer
          /\ DOMAIN handlers = (DOMAIN lastReg.before) \cup {lastReg.table}
          /\ \A k \in (DOMAIN lastReg.before) \ {lastReg.table} :
                handlers[k] = lastReg.before[k]
    /\ \A k \in 1..Len(calls) :
          calls[k].consumer
            = Lookup(handlers, StringField(yielded[calls[k].idx].table))

ReRegistrationWitness ==
    /\ lastReg # NoReg
    /\ lastReg.table \in DOMAIN lastReg.before
    /\ lastReg.before[lastReg.table] # lastReg.consumer
    /\ Cardinality(DOMAIN handlers) >= 2

\* C12: the invocation for a received well-formed notification of a
\* registered table carries the operation and the data of its envelope.
PayloadFidelity ==
    \A i \in Taken :
        WellFormed(yielded[i]) /\ Registered(yielded[i])
        => /\ CallsFor(i) # {}
           /\ \A k \in CallsFor(i) :
                 /\ calls[k].operation = yielded[i].operation
                 /\ calls[k].data = yielded[i].data

ConfigUpdateWitness ==
    /\ "s_config" \in DOMAIN handlers
    /\ yielded # <<>>
    /\ yielded[1] = Obj("s_config", "UPDATE", Doc1, ValidTime)
    /\ Len(calls) = 1
    /\ calls[1] = [idx |-> 1, consumer |-> handlers["s_config"],
                   operation |-> "UPDATE", data |-> Doc1, result |-> "ok"]

\* C13: every consumer invocation carries INSERT, UPDATE or DELETE.
OperationEnumerated ==
    \A k \in 1..Len(calls) : calls[k].operation \in Operations

\* C14: after a Ping that succeeded Start has not returned and the loop waits
\* in select with the listener open; the step that ends the Ping starts a
\* fresh timer; and a notification received next is routed as
\* handleNotification determines.
ProbeSuccessResumes ==
    /\ [](window.result = "ok"
           => /\ pc = "select"
              /\ startErr = "none"
              /\ listenerOpen
              /\ window.probes = 1)
    /\ [][window.result # "ok" /\ window'.result = "ok"
           => pc = "ping" /\ pc' = "select" /\ timer' = 0]_vars
    /\ [][window.result = "ok" /\ taken' # taken
           => LET i == Head(notify)
                  h == Dispatch(yielded[i], handlers)
              IN /\ taken' = Append(taken, i)
                 /\ IF h.call = NoCall
                    THEN calls' = calls /\ pc' = "select"
                    ELSE /\ pc' = "invoke"
                         /\ Len(calls') = Len(calls) + 1
                         /\ Last(calls').idx = i
                         /\ Last(calls').consumer = h.call.consumer]_vars

ProbeSuccessWitness ==
    /\ window.result = "ok"
    /\ notify # <<>>
    /\ WellFormed(yielded[Head(notify)])
    /\ Registered(yielded[Head(notify)])

\* C15: a received nil has no consumer invocation and no error record; a
\* step in which the callback logs a listener event, and a step that receives
\* a nil, change neither the invocations, nor the registry, nor what Start
\* returned, and the loop is in select after the nil.
ReconnectInformational ==
    /\ [](\A i \in Taken :
             yielded[i] = Nil => CallsFor(i) = {} /\ LoggedFor(i) = {})
    /\ [][evlog' # evlog
           => /\ calls' = calls
              /\ errlog' = errlog
              /\ handlers' = handlers
              /\ startErr' = startErr
              /\ pc' = pc]_vars
    /\ [][taken' # taken /\ yielded[Last(taken')] = Nil
           => /\ calls' = calls
              /\ errlog' = errlog
              /\ handlers' = handlers
              /\ startErr' = startErr
              /\ pc' = "select"]_vars

ReconnectWitness ==
    /\ \E i \in Taken : yielded[i] = Nil /\ i < Len(yielded)
    /\ evlog # <<>>
    /\ \E k \in 1..Len(calls) : calls[k].result = "ok"

\* C16: at most one consumer invocation is running, and only while the loop
\* is in the call; while it is, the loop receives nothing, issues no Ping and
\* does not return, and it leaves the call only with the invocation ended.
SynchronousInvocation ==
    /\ [](/\ Cardinality({k \in 1..Len(calls) : calls[k].result = "running"}) <= 1
          /\ (pc = "invoke") <=> (\E k \in 1..Len(calls) : calls[k].result = "running"))
    /\ [][pc = "invoke"
           => /\ taken' = taken
              /\ window' = window
              /\ startErr' = startErr
              /\ Len(calls') = Len(calls)
              /\ pc' \in {"invoke", "select"}
              /\ Len(notify') >= Len(notify)]_vars

InFlightWitness ==
    /\ pc = "invoke"
    /\ Len(calls) = 1
    /\ Len(notify) = 1

\* C17: the registry is written only in setup, before the loop has received
\* anything; once the loop reads it, it is never written.
RegistrationBeforeLoop ==
    /\ [](taken # <<>> => pc # "setup" /\ lastReg = NoReg)
    /\ [][handlers' # handlers \/ lastReg' \notin {lastReg, NoReg}
           => pc = "setup" /\ pc' = "setup" /\ taken = <<>> /\ yielded = <<>>]_vars

RegistrationPhaseWitness ==
    /\ Cardinality(DOMAIN handlers) = 2
    /\ Len(taken) = 2
    /\ Len(calls) = 2

\* C18: whenever Start has returned the listener is closed, while Start runs
\* it is open, and after the return nothing is received, no Ping is issued
\* and no consumer is invoked.
ReleasedOnReturn ==
    /\ [](/\ pc = "returned" => ~listenerOpen
          /\ pc \in {"listen", "select", "invoke", "ping"} => listenerOpen)
    /\ [][pc = "returned"
           => UNCHANGED <<pc, notify, yielded, taken, cur, calls, errlog,
                          timer, window, startErr, listenerOpen>>]_vars

SubscribeFailureWitness ==
    /\ pc = "returned"
    /\ startErr = "listen"
    /\ ~listenerOpen
    /\ DOMAIN handlers # {}

\* C19: whenever Start has returned it returned an error, of Listen before
\* the first select or of a Ping that failed after a timeout; with Listen
\* passed and no failed Ping, Start has not returned.
NeverReturnsSuccess ==
    /\ pc = "returned"
       => \/ startErr = "listen" /\ window.how = "none"
          \/ startErr = "ping" /\ window.how = "timeout" /\ window.result = "failed"
    /\ (pc \notin {"setup", "listen"} /\ startErr # "listen" /\ window.result # "failed")
       => pc \in {"select", "invoke", "ping"}

StillRunningWitness ==
    /\ pc = "select"
    /\ window.result = "ok"
    /\ Len(taken) >= 2

\* C20: every receive, whatever the item, and every entry into select
\* starts the timer at 0; the timer advances only in select with Notify empty;
\* and the loop goes to Ping only from a select whose timer reached the full
\* window.
TimerRestarts ==
    [][/\ taken' # taken => timer' = 0
       /\ (pc # "select" /\ pc' = "select") => timer' = 0
       /\ timer' > timer => pc = "select" /\ pc' = "select" /\ notify = <<>>
       /\ (pc # "ping" /\ pc' = "ping") => pc = "select" /\ timer = LivenessWindow]_vars

TimerRestartWitness ==
    /\ pc = "select"
    /\ timer = 0
    /\ Len(taken) = 2
    /\ yielded[2] = Nil
    /\ \E e \in LoggedFor(1) : errlog[e].kind = "parse"
    /\ window.how = "notify"

====
